---- MODULE Spec2Model ----
(***************************************************************************)
(* ParetoNMF (src/src/paretonmf.py): the topic-count search of evaluate,   *)
(* its stopping condition, and the two auto-tuning procedures.             *)
(*                                                                         *)
(* The factorization primitive (sklearn NMF) is external.  What the search *)
(* reads from it is the topic-size distribution of the documents (the      *)
(* Counter of arg-max labels), so a fit is modelled by the distribution it *)
(* yields, chosen among the distributions possible for the matrix, or by   *)
(* its failure.  A fitted NMF object is modelled by its n_components and   *)
(* by whether it was fitted during the evaluate call in progress.          *)
(*                                                                         *)
(* Fractions are pairs num/den.  The code computes them in IEEE doubles;   *)
(* the places where a double product truncates differently from the exact  *)
(* quotient are listed in FloatShort.                                      *)
(***************************************************************************)
EXTENDS Integers, Sequences, FiniteSets, TLC

(* ------------------------------ bounds --------------------------------- *)
MaxDocs == 4          \* rows of an unstructured input matrix
MaxCluster == 3       \* documents per cluster of a clustered matrix
MaxStepsCfg == 3      \* largest max_steps configured
MaxFailAt == 1        \* largest topic count at which a fit may fail
MaxCalls == 2         \* evaluate calls made on one estimator
MaxNoiseDocs == 5     \* rows of a matrix given to the noise estimator alone
MaxNoiseTok == 3      \* nonzero terms per document, noise estimator alone
MaxRich == 15         \* largest rich_content given to the detector alone
MaxPrev == 3          \* largest rich_topics given to the detector alone
MaxVocab == 5         \* columns of a wide unstructured matrix
MaxSeed == 3          \* integer seeds given as random_state
MaxFailLate == 3      \* largest topic count at which a fit may fail, single call
MaxStepDocs == 8      \* rows of a matrix given to the step estimator alone
MaxStepVocab == 12    \* columns of a matrix given to the step estimator alone

\* max_steps=100 in the signature of __init__
DefaultMaxSteps == 100

\* random_state=None in the signature of __init__
NoSeed == 0

(* ------------------------------ values --------------------------------- *)
\* noise_pct='auto' / step='auto'
AutoNoise == [auto |-> TRUE, num |-> 0, den |-> 1, derived |-> FALSE]
AutoStep == [auto |-> TRUE, val |-> 0]

\* a noise fraction num/den; derived = computed as 1 - float(md)/N
Frac(n, d) == [auto |-> FALSE, num |-> n, den |-> d, derived |-> FALSE]
Derived(n, d) == [auto |-> FALSE, num |-> n, den |-> d, derived |-> TRUE]
StepVal(v) == [auto |-> FALSE, val |-> v]

\* an attribute that has never been assigned (reading it: AttributeError)
Unset == [k |-> 0, search |-> "unset"]
Fitted(k) == [k |-> k, search |-> "current"]
\* the same object seen from a later evaluate call
Earlier(n) == IF n.search = "current" THEN [n EXCEPT !.search = "earlier"] ELSE n

\* how a call ended: a returned integer, None, True, False, or an exception
Pending == [kind |-> "pending", value |-> 0, err |-> ""]
Returned(v) == [kind |-> "returned", value |-> v, err |-> ""]
ReturnedNone == [kind |-> "none", value |-> 0, err |-> ""]
ReturnedBool(b) == [kind |-> IF b THEN "true" ELSE "false", value |-> 0, err |-> ""]
Raised(e) == [kind |-> "error", value |-> 0, err |-> e]

(* ------------------------------ helpers -------------------------------- *)
RECURSIVE Sum(_)
Sum(s) == IF s = <<>> THEN 0 ELSE Head(s) + Sum(Tail(s))

RECURSIVE Insert(_, _)
Insert(x, s) ==
  IF s = <<>> THEN <<x>>
  ELSE IF x >= Head(s) THEN <<x>> \o s
  ELSE <<Head(s)>> \o Insert(x, Tail(s))

\* np.sort(...)[::-1] and sorted(..., reverse=True)
RECURSIVE SortDesc(_)
SortDesc(s) == IF s = <<>> THEN <<>> ELSE Insert(Head(s), SortDesc(Tail(s)))

\* np.cumsum
CumSum(s) == [j \in 1..Len(s) |-> Sum(SubSeq(s, 1, j))]

\* np.sum(cum_sum < x)
CountLess(s, x) == Cardinality({j \in 1..Len(s) : s[j] < x})

\* sequences of positive counts that add up to n, at most p of them
RECURSIVE Compositions(_, _)
Compositions(n, p) ==
  IF n = 0 THEN {<<>>}
  ELSE IF p = 0 THEN {}
  ELSE UNION {{<<f>> \o r : r \in Compositions(n - f, p - 1)} : f \in 1..n}

\* the same as bags: the counts in descending order
Partitions(n, p) == {c \in Compositions(n, p) : \A j \in 1..(Len(c) - 1) : c[j] >= c[j + 1]}

RECURSIVE SeqsUpTo(_, _)
SeqsUpTo(S, n) ==
  IF n = 0 THEN {<<>>}
  ELSE LET shorter == SeqsUpTo(S, n - 1)
       IN shorter \cup {<<x>> \o r : x \in S, r \in {q \in shorter : Len(q) = n - 1}}

Ones(n) == [j \in 1..n |-> 1]

(* ----------------------- double arithmetic ------------------------------ *)
\* <<c, md, N>>: int(c * (1 - (1 - float(md)/N))) is one less than c*md \div N
FloatShort ==
  { <<3,1,3>>, <<6,1,3>>, <<9,1,3>>, <<12,1,3>>, <<15,1,3>>, <<5,1,5>>,
    <<10,1,5>>, <<15,1,5>>, <<6,1,6>>, <<12,1,6>>, <<3,2,6>>, <<6,2,6>>,
    <<9,2,6>>, <<12,2,6>>, <<15,2,6>>, <<7,1,7>>, <<14,1,7>>, <<3,3,9>>,
    <<6,3,9>>, <<9,3,9>>, <<12,3,9>>, <<15,3,9>>, <<10,1,10>>, <<5,2,10>>,
    <<10,2,10>>, <<15,2,10>>, <<6,2,12>>, <<12,2,12>>, <<3,4,12>>, <<6,4,12>>,
    <<9,4,12>>, <<12,4,12>>, <<15,4,12>>, <<13,1,13>>, <<14,1,14>>, <<7,2,14>>,
    <<14,2,14>>, <<15,1,15>>, <<15,2,15>>, <<5,3,15>>, <<10,3,15>>, <<15,3,15>>,
    <<15,4,15>>, <<3,5,15>>, <<6,5,15>>, <<9,5,15>>, <<12,5,15>>, <<15,5,15>> }

\* a slip: the noise share taken for the rich share
RichContentOfNoise(corpus, noise) == (corpus * noise.num) \div noise.den

\* a slip: + for -
RichContentSignSlip(corpus, noise) == (corpus * (noise.den + noise.num)) \div noise.den

\* int(corpus_count * (1 - noise_pct))
RichContent(corpus, noise) ==
  LET exact == (corpus * (noise.den - noise.num)) \div noise.den
  IN IF noise.derived /\ <<corpus, noise.den - noise.num, noise.den>> \in FloatShort
     THEN exact - 1
     ELSE exact

\* a slip: the quotient truncated
TruncDiv(a, b) == a \div b

\* int(round(float(a)/b)), b > 0: halves round away from zero
RoundDiv(a, b) == (2 * a + b) \div (2 * b)

(* ------------------------- _stopping_condition -------------------------- *)
\* a slip: the cumulative sum taken over the counts as they come
TopicsWithRichContentUnsorted(summary, rich) == CountLess(CumSum(summary), rich)

\* a slip: <= for <
TopicsWithRichContentInclusive(summary, rich) ==
  CountLess(CumSum(SortDesc(summary)), rich + 1)

\* topics_with_rich_content
TopicsWithRichContent(summary, rich) == CountLess(CumSum(SortDesc(summary)), rich)

\* a slip: >= for ==
StoppingConditionAtLeast(summary, rich, richTopics) ==
  TopicsWithRichContent(summary, rich) >= richTopics

StoppingCondition(summary, rich, richTopics) ==
  TopicsWithRichContent(summary, rich) = richTopics

\* self.rich_topics after _stopping_condition
RichTopicsAfter(summary, rich, richTopics) ==
  IF StoppingCondition(summary, rich, richTopics)
  THEN richTopics
  ELSE TopicsWithRichContent(summary, rich)

(* ------------------------ _pareto_corpus_content ------------------------ *)
\* a slip: the target rounded up past the quotient
MajorityInformationUp(tokens, pn, pd) == (Sum(tokens) * pn) \div pd + 1

\* int(total_tokens * n_percent), n_percent = pn/pd
MajorityInformation(tokens, pn, pd) == (Sum(tokens) * pn) \div pd

\* a slip: <= for <
MajorityDocsInclusive(tokens, pn, pd) ==
  CountLess(CumSum(SortDesc(tokens)), MajorityInformation(tokens, pn, pd) + 1)

MajorityDocs(tokens, pn, pd) ==
  CountLess(CumSum(SortDesc(tokens)), MajorityInformation(tokens, pn, pd))

\* float(majority_docs)/total_documents divides by zero on a matrix of no rows
ParetoRaises(tokens) == Len(tokens) = 0

ParetoCorpusContent(tokens, pn, pd) ==
  Derived(Len(tokens) - MajorityDocs(tokens, pn, pd), Len(tokens))

(* ----------------------- _determine_auto_step_size ---------------------- *)
AutoStepRaises(tokens) == Len(tokens) = 0

DetermineAutoStepSize(vocab, corpus) ==
  IF RoundDiv(vocab, corpus) = 0 THEN 1 ELSE RoundDiv(vocab, corpus)

(* ------------------------------ inputs --------------------------------- *)
\* a matrix: the nonzero-term count of each row, the number of columns, the
\* sizes of its document clusters (none for an unstructured matrix), and the
\* topic count at which fitting it fails (0: none)
NoMatrix == [tokens |-> <<>>, vocab |-> 0, clusters |-> <<>>, failAt |-> 0]

Descending(q) == \A j \in 1..(Len(q) - 1) : q[j] >= q[j + 1]

\* unstructured matrices: every row empty or holding one term, the rows
\* listed by descending term count
FreeMatrices ==
  {[tokens |-> t, vocab |-> MaxVocab, clusters |-> <<>>, failAt |-> f] :
     t \in {q \in SeqsUpTo({0, 1}, MaxDocs) : Descending(q)}, f \in 0..MaxFailAt}

\* the same, with fits that may fail at a later topic count
LateFailMatrices ==
  {[tokens |-> t, vocab |-> MaxVocab, clusters |-> <<>>, failAt |-> f] :
     t \in {q \in SeqsUpTo({0, 1}, MaxDocs) : Descending(q)}, f \in 0..MaxFailLate}

\* three well-separated clusters over disjoint term sets, largest first,
\* every document holding one term of its cluster
ClusterMatrices ==
  {[tokens |-> Ones(c[1] + c[2] + c[3]), vocab |-> 3, clusters |-> c, failAt |-> 0] :
     c \in {x \in (1..MaxCluster) \X (1..MaxCluster) \X (1..MaxCluster) : Descending(x)}}

\* matrices for the noise estimator alone, rows in any order
NoiseMatrices ==
  {[tokens |-> t, vocab |-> MaxNoiseTok, clusters |-> <<>>, failAt |-> 0] :
     t \in SeqsUpTo(0..MaxNoiseTok, MaxNoiseDocs)}

\* matrices for the step estimator alone, which reads their shape only
StepMatrices ==
  {[tokens |-> [j \in 1..n |-> 0], vocab |-> v, clusters |-> <<>>, failAt |-> 0] :
     n \in 0..MaxStepDocs, v \in 0..MaxStepVocab}
  \cup {[tokens |-> Ones(50), vocab |-> 100, clusters |-> <<>>, failAt |-> 0],
        [tokens |-> Ones(100), vocab |-> 10, clusters |-> <<>>, failAt |-> 0]}

\* values of n_percent in [0, 1]: 0.8, and fractions that a double holds exactly
Percents ==
  {[num |-> 0, den |-> 1], [num |-> 1, den |-> 4], [num |-> 1, den |-> 2],
   [num |-> 3, den |-> 4], [num |-> 4, den |-> 5], [num |-> 1, den |-> 1]}

\* topic-size distributions for the detector alone, topics in any order
StopSummaries ==
  SeqsUpTo(1..3, 3) \cup {<<10, 8, 2>>, <<10, 2, 8>>, <<8, 10, 2>>, <<8, 2, 10>>,
                          <<2, 10, 8>>, <<2, 8, 10>>}

NoiseConfigs == {Frac(1, 5), AutoNoise}
StepConfigs == {StepVal(1), StepVal(2), AutoStep}
StartConfigs == {1, 2}

(* -------------------------- the factorization --------------------------- *)
\* a slip: a failure of the fit swallowed
FitFailsUnnoticed(m, k) == k <= 0 \/ Len(m.tokens) = 0

\* NMF(n_components=k).fit / fit_transform raises
FitFails(m, k) == k <= 0 \/ Len(m.tokens) = 0 \/ k = m.failAt

\* the factorization follows the clusters: merged below 3 topics, one topic
\* per cluster at 3, a cluster split or a topic left empty above 3
ClusterDistributions(c, k) ==
  IF k = 1 THEN {<<c[1] + c[2] + c[3]>>}
  ELSE IF k = 2 THEN {<<c[1] + c[2], c[3]>>, <<c[1] + c[3], c[2]>>, <<c[2] + c[3], c[1]>>}
  ELSE {t[1] \o t[2] \o t[3] :
          t \in Compositions(c[1], k - 2) \X Compositions(c[2], k - 2)
                  \X Compositions(c[3], k - 2)}

\* Counter(argmax of each row of W) after a fit with k topics: a bag of
\* document counts, one per topic that some document is assigned to.  The
\* rows of a zero matrix have no loading, and argmax gives them all topic 0.
Distributions(m, k) ==
  IF Sum(m.tokens) = 0
  THEN {<<Len(m.tokens)>>}
  ELSE IF m.clusters = <<>>
  THEN Partitions(Len(m.tokens), k)
  ELSE {SortDesc(d) : d \in {e \in ClusterDistributions(m.clusters, k) : Len(e) <= k}}

\* the j-th element of a set, in an order fixed once and for all
RECURSIVE Pick(_, _)
Pick(S, j) ==
  LET x == CHOOSE y \in S : TRUE
  IN IF j = 0 THEN x ELSE Pick(S \ {x}, j - 1)

\* a slip: random_state not handed to NMF
FitTransformUnseeded(m, k, seed) == Distributions(m, k)

\* NMF(n_components=k, random_state=seed).fit_transform(matrix): without a
\* seed any of the possible distributions, with a seed one that the matrix,
\* the topic count and the seed determine
FitTransform(m, k, seed) ==
  IF seed = NoSeed
  THEN Distributions(m, k)
  ELSE {Pick(Distributions(m, k), (seed * k) % Cardinality(Distributions(m, k)))}

(* ------------------------------- state ---------------------------------- *)
VARIABLES
  noise_pct, step, start, max_steps,     \* configuration attributes
  random_state,
  rich_topics, nmf, previous_nmf,        \* search attributes
  topic_count, corpus_count, rich_content, topic_summary,
  matrix, i, pc, result,                 \* the call in progress
  calls, fits, stableIter, entry, cfg0,  \* history
  origin, twin,
  n_percent                              \* argument of _pareto_corpus_content

vars == <<noise_pct, step, start, max_steps, random_state, rich_topics, nmf,
          previous_nmf, topic_count, corpus_count, rich_content, topic_summary,
          matrix, i, pc, result, calls, fits, stableIter, entry, cfg0, origin, twin, n_percent>>

config == <<noise_pct, step, start, max_steps, random_state>>

Snapshot == [noise_pct |-> noise_pct, step |-> step, start |-> start,
             max_steps |-> max_steps]

\* what the call in progress found on entry
Entry == [rich_topics |-> rich_topics, previous_nmf |-> previous_nmf]

\* self._pareto_corpus_content(matrix, .8), line 204
EightyPercent == [num |-> 4, den |-> 5]

\* which fit of the call in progress (its place in fits) made the object in
\* self.nmf and the one in self.previous_nmf; 0: none of them
NoOrigin == [nmf |-> 0, previous_nmf |-> 0]

\* the matrix given to a pair of estimators, and how the first one's call ended
NoTwin == [matrix |-> NoMatrix, outcome |-> <<>>]

\* no call has been made
NoCall ==
  /\ matrix = NoMatrix /\ i = 0 /\ result = Pending
  /\ calls = 0 /\ fits = <<>> /\ stableIter = -1
  /\ origin = NoOrigin

\* __init__, lines 173-191: rich_topics is 0; nmf, previous_nmf, topic_count,
\* corpus_count, rich_content and topic_summary are not assigned
Blank ==
  /\ rich_topics = 0
  /\ nmf = Unset /\ previous_nmf = Unset
  /\ topic_count = 0 /\ corpus_count = 0 /\ rich_content = 0
  /\ topic_summary = <<>>

\* ParetoNMF(noise_pct=..., step=..., start=..., max_steps=...)
Init ==
  /\ noise_pct \in NoiseConfigs
  /\ step \in StepConfigs
  /\ start \in StartConfigs
  /\ max_steps \in 1..MaxStepsCfg
  /\ random_state = NoSeed
  /\ Blank
  /\ NoCall
  /\ pc = "idle"
  /\ entry = Entry
  /\ cfg0 = Snapshot
  /\ twin = NoTwin
  /\ n_percent = EightyPercent

(* ------------------------------ evaluate -------------------------------- *)
\* a slip: the loop stays at its first topic count
TopicArrayStuck(first, stride, j) == first

\* a slip: the loop starts one stride late
TopicArrayLate(first, stride, j) == first + (j + 1) * stride

\* np.arange(start, max_steps * step + start, step)[j]
TopicArray(first, stride, j) == first + j * stride

\* a slip: the stable topic count kept
BackOffNone(k, stride) == k

\* self.topic_count - self.step
BackOff(k, stride) == k - stride

\* a slip: the refitted object stored
StoredRefit(cached, refit) == refit

\* self.nmf = self.previous_nmf, line 245: of the cached object and the one
\* just refitted, the one that self.nmf ends up holding
StoredAfterStable(cached, refit) == cached

\* lines 203-213: resolve the auto parameters, compute the threshold
Evaluate(m) ==
  /\ pc = "idle"
  /\ calls < MaxCalls
  /\ LET tokens == m.tokens
         noise1 == IF noise_pct.auto
                   THEN ParetoCorpusContent(tokens, EightyPercent.num, EightyPercent.den)
                   ELSE noise_pct
         step1 == IF step.auto
                  THEN StepVal(DetermineAutoStepSize(m.vocab, Len(tokens)))
                  ELSE step
     IN /\ calls' = calls + 1
        /\ entry' = [rich_topics |-> rich_topics, previous_nmf |-> Earlier(previous_nmf)]
        /\ fits' = <<>>
        /\ stableIter' = -1
        /\ nmf' = Earlier(nmf)
        /\ previous_nmf' = Earlier(previous_nmf)
        /\ i' = 0
        /\ origin' = NoOrigin
        /\ UNCHANGED <<start, max_steps, random_state, rich_topics, topic_count,
                       topic_summary, cfg0, twin, n_percent>>
        /\ IF noise_pct.auto /\ ParetoRaises(tokens)
           THEN /\ result' = Raised("ZeroDivisionError")
                /\ pc' = "idle"
                /\ matrix' = NoMatrix
                /\ UNCHANGED <<noise_pct, step, corpus_count, rich_content>>
           ELSE IF step.auto /\ AutoStepRaises(tokens)
           THEN /\ noise_pct' = noise1
                /\ result' = Raised("ZeroDivisionError")
                /\ pc' = "idle"
                /\ matrix' = NoMatrix
                /\ UNCHANGED <<step, corpus_count, rich_content>>
           ELSE /\ noise_pct' = noise1
                /\ step' = step1
                /\ corpus_count' = Len(tokens)
                /\ rich_content' = RichContent(Len(tokens), noise1)
                /\ result' = Pending
                /\ pc' = "loop"
                /\ matrix' = m

\* lines 214-248, one pass of the for loop: fit, label, check, back off
LoopIteration ==
  /\ pc = "loop"
  /\ i < max_steps
  /\ LET k == TopicArray(start, step.val, i)
         back == BackOff(k, step.val)
         made == Len(fits) + 1
     IN IF FitFails(matrix, k)
        THEN /\ topic_count' = k
             /\ fits' = Append(fits, k)
             /\ result' = Raised("FitError")
             /\ pc' = "idle"
             /\ matrix' = NoMatrix
             /\ i' = 0
             /\ UNCHANGED <<rich_topics, nmf, previous_nmf, topic_summary, stableIter,
                            origin>>
        ELSE \E dist \in FitTransform(matrix, k, random_state) :
             /\ topic_summary' = dist
             /\ rich_topics' = RichTopicsAfter(dist, rich_content, rich_topics)
             /\ IF StoppingCondition(dist, rich_content, rich_topics)
                THEN /\ topic_count' = back
                     /\ fits' = fits \o <<k, back>>
                     /\ stableIter' = i
                     /\ pc' = "idle"
                     /\ matrix' = NoMatrix
                     /\ i' = 0
                     /\ UNCHANGED previous_nmf
                     /\ IF FitFails(matrix, back)
                        THEN /\ nmf' = Fitted(k)
                             /\ origin' = [origin EXCEPT !.nmf = made]
                             /\ result' = Raised("FitError")
                        ELSE IF previous_nmf = Unset
                        THEN /\ nmf' = Fitted(k)
                             /\ origin' = [origin EXCEPT !.nmf = made]
                             /\ result' = Raised("AttributeError")
                        ELSE /\ nmf' = previous_nmf
                             /\ origin' = [origin EXCEPT !.nmf =
                                             StoredAfterStable(origin.previous_nmf, made + 1)]
                             /\ result' = Returned(back)
                ELSE /\ topic_count' = k
                     /\ fits' = Append(fits, k)
                     /\ nmf' = Fitted(k)
                     /\ previous_nmf' = Fitted(k)
                     /\ origin' = [nmf |-> made, previous_nmf |-> made]
                     /\ i' = i + 1
                     /\ UNCHANGED <<stableIter, pc, matrix, result>>
  /\ UNCHANGED <<config, corpus_count, rich_content, calls, entry, cfg0, twin, n_percent>>

\* the for loop runs out of topic counts: evaluate falls off its end
LoopExhausted ==
  /\ pc = "loop"
  /\ i = max_steps
  /\ result' = ReturnedNone
  /\ pc' = "idle"
  /\ matrix' = NoMatrix
  /\ i' = 0
  /\ UNCHANGED <<config, rich_topics, nmf, previous_nmf, topic_count, corpus_count,
                 rich_content, topic_summary, calls, fits, stableIter, entry, cfg0,
                 origin, twin, n_percent>>

\* one estimator, evaluated on one matrix after another
Next ==
  \/ \E m \in FreeMatrices : Evaluate(m)
  \/ LoopIteration
  \/ LoopExhausted

Spec == Init /\ [][Next]_vars

\* one call on a new estimator
NextOnce ==
  \/ \E m \in LateFailMatrices : calls = 0 /\ Evaluate(m)
  \/ LoopIteration
  \/ LoopExhausted

\* every fit returns (or raises), so a call that is in its loop goes on
SpecOnce ==
  Init /\ [][NextOnce]_vars /\ WF_vars(LoopIteration) /\ WF_vars(LoopExhausted)

(* ---------------- evaluate on three clusters of documents ---------------- *)
\* ParetoNMF(noise_pct=.2, step=1, start=2): one call on a new estimator
InitClusters ==
  /\ noise_pct = Frac(1, 5)
  /\ step = StepVal(1)
  /\ start = 2
  /\ max_steps \in (1..MaxStepsCfg) \cup {DefaultMaxSteps}
  /\ random_state = NoSeed
  /\ Blank
  /\ NoCall
  /\ pc = "idle"
  /\ entry = Entry
  /\ cfg0 = Snapshot
  /\ twin = NoTwin
  /\ n_percent = EightyPercent

NextClusters ==
  \/ \E m \in ClusterMatrices : calls = 0 /\ Evaluate(m)
  \/ LoopIteration
  \/ LoopExhausted

SpecClusters == InitClusters /\ [][NextClusters]_vars

(* ---------------------- the stopping condition alone -------------------- *)
\* an estimator in the middle of a search, about to check stability
InitStop ==
  /\ noise_pct = Frac(1, 5)
  /\ step = StepVal(1)
  /\ start = 2
  /\ max_steps = DefaultMaxSteps
  /\ random_state = NoSeed
  /\ twin = NoTwin
  /\ n_percent = EightyPercent
  /\ topic_summary \in StopSummaries
  /\ rich_content \in 0..MaxRich
  /\ rich_topics \in 0..MaxPrev
  /\ nmf = Unset /\ previous_nmf = Unset
  /\ topic_count = 0 /\ corpus_count = 0
  /\ NoCall
  /\ pc = "check"
  /\ entry = Entry
  /\ cfg0 = Snapshot

\* _stopping_condition(), lines 257-272
StoppingConditionCall ==
  /\ pc = "check"
  /\ result' = ReturnedBool(StoppingCondition(topic_summary, rich_content, rich_topics))
  /\ rich_topics' = RichTopicsAfter(topic_summary, rich_content, rich_topics)
  /\ entry' = Entry
  /\ pc' = "done"
  /\ UNCHANGED <<config, nmf, previous_nmf, topic_count, corpus_count, rich_content,
                 topic_summary, matrix, i, calls, fits, stableIter, cfg0, origin, twin, n_percent>>

NextStop == StoppingConditionCall

SpecStop == InitStop /\ [][NextStop]_vars

(* ------------------------ the noise estimator alone --------------------- *)
\* ParetoNMF(noise_pct='auto') and a matrix
InitNoise ==
  /\ noise_pct = AutoNoise
  /\ step = StepVal(1)
  /\ start = 2
  /\ max_steps = DefaultMaxSteps
  /\ random_state = NoSeed
  /\ twin = NoTwin
  /\ n_percent = EightyPercent
  /\ Blank
  /\ matrix \in NoiseMatrices
  /\ i = 0 /\ result = Pending /\ calls = 0 /\ fits = <<>> /\ stableIter = -1
  /\ origin = NoOrigin
  /\ pc = "noise"
  /\ entry = Entry
  /\ cfg0 = Snapshot

\* _pareto_corpus_content(matrix, .8), lines 292-301
ParetoCall ==
  /\ pc = "noise"
  /\ IF ParetoRaises(matrix.tokens)
     THEN result' = Raised("ZeroDivisionError") /\ UNCHANGED noise_pct
     ELSE /\ result' = ReturnedNone
          /\ noise_pct' = ParetoCorpusContent(matrix.tokens, n_percent.num, n_percent.den)
  /\ pc' = "done"
  /\ UNCHANGED <<step, start, max_steps, random_state, rich_topics, nmf, previous_nmf,
                 topic_count, corpus_count, rich_content, topic_summary, matrix, i,
                 calls, fits, stableIter, entry, cfg0, origin, twin, n_percent>>

NextNoise == ParetoCall

SpecNoise == InitNoise /\ [][NextNoise]_vars

\* the same, called with any n_percent
InitNoiseAny ==
  /\ noise_pct = AutoNoise
  /\ step = StepVal(1)
  /\ start = 2
  /\ max_steps = DefaultMaxSteps
  /\ random_state = NoSeed
  /\ twin = NoTwin
  /\ n_percent \in Percents
  /\ Blank
  /\ matrix \in NoiseMatrices
  /\ i = 0 /\ result = Pending /\ calls = 0 /\ fits = <<>> /\ stableIter = -1
  /\ origin = NoOrigin
  /\ pc = "noise"
  /\ entry = Entry
  /\ cfg0 = Snapshot

SpecNoiseAny == InitNoiseAny /\ [][NextNoise]_vars

(* ------------------------ the step estimator alone ---------------------- *)
\* ParetoNMF(step='auto') and a matrix
InitStep ==
  /\ noise_pct = Frac(1, 5)
  /\ step = AutoStep
  /\ start = 2
  /\ max_steps = DefaultMaxSteps
  /\ random_state = NoSeed
  /\ twin = NoTwin
  /\ n_percent = EightyPercent
  /\ Blank
  /\ matrix \in StepMatrices
  /\ i = 0 /\ result = Pending /\ calls = 0 /\ fits = <<>> /\ stableIter = -1
  /\ origin = NoOrigin
  /\ pc = "step"
  /\ entry = Entry
  /\ cfg0 = Snapshot

\* _determine_auto_step_size(matrix), lines 315-317
AutoStepCall ==
  /\ pc = "step"
  /\ IF AutoStepRaises(matrix.tokens)
     THEN result' = Raised("ZeroDivisionError") /\ UNCHANGED step
     ELSE /\ result' = ReturnedNone
          /\ step' = StepVal(DetermineAutoStepSize(matrix.vocab, Len(matrix.tokens)))
  /\ pc' = "done"
  /\ UNCHANGED <<noise_pct, start, max_steps, random_state, rich_topics, nmf,
                 previous_nmf, topic_count, corpus_count, rich_content, topic_summary,
                 matrix, i, calls, fits, stableIter, entry, cfg0, origin, twin, n_percent>>

NextStep == AutoStepCall

SpecStep == InitStep /\ [][NextStep]_vars

(* ------------- two estimators, one matrix, one random_state ------------- *)
\* how the call that just ended came out: what it returned or raised, and
\* the factorization it left on the estimator
Outcome == [result |-> result, nmf |-> nmf, origin |-> origin.nmf]

\* ParetoNMF(..., random_state=seed), and the matrix both estimators get
InitTwin ==
  /\ noise_pct \in NoiseConfigs
  /\ step \in StepConfigs
  /\ start \in StartConfigs
  /\ max_steps \in 1..MaxStepsCfg
  /\ random_state \in 1..MaxSeed
  /\ Blank
  /\ NoCall
  /\ pc = "idle"
  /\ entry = Entry
  /\ cfg0 = Snapshot
  /\ twin \in {[matrix |-> m, outcome |-> <<>>] : m \in FreeMatrices}
  /\ n_percent = EightyPercent

\* the first estimator is done; a second one is constructed with the
\* arguments the first one was constructed with
ConstructSecond ==
  /\ pc = "idle"
  /\ calls = 1
  /\ twin.outcome = <<>>
  /\ twin' = [twin EXCEPT !.outcome = <<Outcome>>]
  /\ noise_pct' = cfg0.noise_pct
  /\ step' = cfg0.step
  /\ start' = cfg0.start
  /\ max_steps' = cfg0.max_steps
  /\ rich_topics' = 0
  /\ nmf' = Unset /\ previous_nmf' = Unset
  /\ topic_count' = 0 /\ corpus_count' = 0 /\ rich_content' = 0
  /\ topic_summary' = <<>>
  /\ result' = Pending
  /\ fits' = <<>> /\ stableIter' = -1
  /\ origin' = NoOrigin
  /\ entry' = [rich_topics |-> 0, previous_nmf |-> Unset]
  /\ UNCHANGED <<random_state, matrix, i, pc, calls, cfg0, n_percent>>

NextTwin ==
  \/ (calls = 0 \/ twin.outcome # <<>>) /\ Evaluate(twin.matrix)
  \/ LoopIteration
  \/ LoopExhausted
  \/ ConstructSecond

SpecTwin == InitTwin /\ [][NextTwin]_vars

(* ============================== claims ================================== *)
\* the topic count at which the detector reported stable in the last call
StableTopicCount == TopicArray(start, step.val, stableIter)

\* C1: whenever evaluate returns a topic count c, the factorization stored on
\* the estimator has c topics and was computed at c during that same search.
C1_StoredFactorizationIsTheReturnedOne ==
  result.kind = "returned" => nmf = Fitted(result.value)

\* C2: when the detector first reports stable at topic count t and an earlier
\* iteration of the call exists, evaluate returns t - step, and no topic count
\* larger than t is factorized in that search.
C2_ReturnsOneStepBack ==
  (pc = "idle" /\ stableIter >= 1) =>
     /\ result = Returned(StableTopicCount - step.val)
     /\ \A j \in 1..Len(fits) : fits[j] <= StableTopicCount

C2_Witness ==
  /\ pc = "idle" /\ stableIter = 2
  /\ result.kind = "returned" /\ result.value = 3
  /\ fits = <<2, 3, 4, 3>>

\* C3: when all max_steps iterations complete without the detector reporting
\* stable, evaluate ends with an explicit inconclusive outcome that carries
\* the last attempted topic count.
C3_ExhaustionIsExplicit ==
  (pc = "idle" /\ stableIter = -1 /\ Len(fits) = max_steps /\ result.kind # "error") =>
     /\ result.kind = "inconclusive"
     /\ result.value = TopicArray(start, step.val, max_steps - 1)

\* C4: when the detector reports stable on the first iteration of a call,
\* evaluate ends in an error and returns no topic count.
C4_FirstIterationStableIsAnError ==
  (pc = "idle" /\ stableIter = 0) => result.kind = "error"

\* C5: every evaluate call starts with rich_topics = 0 and no previous
\* factorization, also a second call on the same estimator.
C5_SearchStateStartsFresh ==
  calls >= 1 => (entry.rich_topics = 0 /\ entry.previous_nmf = Unset)

\* C6 as stated: on three clusters of any sizes, evaluate with noise_pct = 0.2,
\* step = 1, start = 2 (and the default max_steps) returns 3.
C6_ThreeClustersOfAnySize ==
  [][(pc = "loop" /\ pc' = "idle" /\ max_steps = DefaultMaxSteps) =>
        result' = Returned(3)]_vars

\* the three clusters have the same size, of three documents or more
EqualClusters(m) ==
  /\ m.clusters # <<>>
  /\ m.clusters[1] = m.clusters[2] /\ m.clusters[2] = m.clusters[3]
  /\ m.clusters[1] >= 3

\* C6: on three clusters of one size, three documents or more each, evaluate
\* on a new estimator with noise_pct = 0.2, step = 1, start = 2 and
\* max_steps >= 3 returns 3.
C6_ThreeEqualClusters ==
  [][(pc = "loop" /\ pc' = "idle" /\ max_steps >= 3 /\ EqualClusters(matrix)) =>
        result' = Returned(3)]_vars

C6_Witness ==
  /\ pc = "idle" /\ corpus_count = 9
  /\ fits = <<2, 3, 4, 3>>
  /\ topic_summary = <<3, 3, 2, 1>>
  /\ result = Returned(3)

\* the detector was called on {10, 8, 2} with rich_content 15 and a previous
\* count of 2
C7_Case ==
  /\ pc = "done"
  /\ SortDesc(topic_summary) = <<10, 8, 2>>
  /\ rich_content = 15
  /\ entry.rich_topics = 2

\* C7 as stated: on {10, 8, 2}, rich_content = 15, previous count 2, the
\* detector counts 2 topics with rich content and reports stable.
C7_CountsTwoAndStable ==
  C7_Case => (result = ReturnedBool(TRUE) /\ rich_topics = 2)

\* C7: on {10, 8, 2}, rich_content = 15, previous count 2, the detector counts
\* 1 topic with rich content (only the cumulative sum 10 is below 15), reports
\* not stable and makes 1 the new baseline.
C7_CountsOneAndNotStable ==
  C7_Case => (result = ReturnedBool(FALSE) /\ rich_topics = 1)

C7_Witness ==
  C7_Case /\ topic_summary = <<2, 10, 8>> /\ result = ReturnedBool(FALSE)

\* the estimator ran on N >= 1 documents that all hold the same number c >= 1
\* of terms
C8_Case ==
  /\ pc = "done"
  /\ Len(matrix.tokens) >= 1
  /\ matrix.tokens[1] >= 1
  /\ \A j \in 1..Len(matrix.tokens) : matrix.tokens[j] = matrix.tokens[1]

\* majority_docs, read back from noise_pct = 1 - majority_docs / N
C8_MajorityDocs == noise_pct.den - noise_pct.num

C9_ZeroMatrixEndsInError ==
  (cfg0.noise_pct.auto /\ calls = 1 /\ pc = "loop") => Sum(matrix.tokens) > 0

\* C10: after evaluate, noise_pct, step, start and max_steps are as they were
\* at construction.
C10_ConfigurationUnchanged ==
  pc = "idle" => Snapshot = cfg0

\* C11: with a seeded (deterministic) factorization, two evaluate calls on the
\* same matrix, each on its own new estimator constructed with the same
\* arguments, end the same way: the same returned topic count and stored
\* factorization, or the same error, or both without a result.
C11_TwoEstimatorsAgree ==
  (pc = "idle" /\ calls = 2 /\ twin.outcome # <<>>) => Outcome = twin.outcome[1]

C11_Witness ==
  /\ pc = "idle" /\ calls = 2 /\ twin.outcome # <<>>
  /\ result.kind = "returned"
  /\ Outcome = twin.outcome[1]
  /\ Len(fits) >= 3

\* the fits made by the loop iterations of the last call: all fits, less the
\* refit that follows a stable iteration
LoopFits == IF stableIter >= 0 THEN SubSeq(fits, 1, Len(fits) - 1) ELSE fits

\* C12: the loop of one evaluate call fits at start, start + step,
\* start + 2*step, ... in that strictly increasing order, in at most max_steps
\* iterations; and as every fit returns, a call that entered its loop ends.
C12_LoopOrderAndTermination ==
  /\ [](/\ Len(LoopFits) <= max_steps
        /\ \A j \in 1..Len(LoopFits) : LoopFits[j] = start + (j - 1) * step.val
        /\ \A j \in 1..(Len(LoopFits) - 1) : LoopFits[j] < LoopFits[j + 1])
  /\ ((pc = "loop") ~> (pc = "idle"))

C12_Witness ==
  /\ pc = "idle" /\ result = ReturnedNone
  /\ max_steps = 3 /\ step.val = 2
  /\ fits = <<2, 4, 6>>

\* the call in progress is about to fit at a topic count where fitting its
\* matrix fails
C13_FitAboutToFail ==
  /\ pc = "loop" /\ i < max_steps
  /\ matrix.failAt = start + i * step.val

\* C13: when the fit fails at a topic count of the loop, evaluate ends there
\* with the failure raised: that fit is the last one of the call, and no topic
\* count is returned.
C13_FitFailureIsSurfaced ==
  [][C13_FitAboutToFail =>
        /\ pc' = "idle"
        /\ result'.kind = "error"
        /\ fits' = Append(fits, matrix.failAt)]_vars

C13_Witness ==
  /\ pc = "idle" /\ stableIter = -1
  /\ result = Raised("FitError")
  /\ fits = <<2, 3>>
  /\ nmf = Fitted(2)

\* C14: when the threshold int(corpus_count * (1 - noise_pct)) is not
\* positive, evaluate ends in an error instead of running its loop.
C14_NonPositiveThresholdIsAnError ==
  pc = "loop" => rich_content > 0

\* C15: on a matrix of N >= 1 rows and V columns the step estimator sets step
\* to max(1, r), r the integer nearest to V / N: an integer of 1 or more, 2 for
\* V = 100 and N = 50, and 1 for V = 10 and N = 100.
C15_StepIsRoundedRatioAtLeastOne ==
  (pc = "done" /\ Len(matrix.tokens) >= 1) =>
     LET n == Len(matrix.tokens)
         v == matrix.vocab
     IN /\ result = ReturnedNone
        /\ ~step.auto
        /\ step.val >= 1
        /\ \E r \in 0..(v + 1) :
              /\ 2 * n * r - n <= 2 * v
              /\ 2 * v <= 2 * n * r + n
              /\ step.val = IF r < 1 THEN 1 ELSE r
        /\ (v = 100 /\ n = 50) => step.val = 2
        /\ (v = 10 /\ n = 100) => step.val = 1

C15_Witness ==
  /\ pc = "done"
  /\ matrix.vocab = 10 /\ Len(matrix.tokens) = 100
  /\ RoundDiv(10, 100) = 0
  /\ step = StepVal(1)

\* the documents of the topics J of the distribution the detector was given
RECURSIVE C16_DocsOf(_)
C16_DocsOf(J) ==
  IF J = {} THEN 0
  ELSE LET j == CHOOSE x \in J : TRUE
       IN topic_summary[j] + C16_DocsOf(J \ {j})

\* the number of sizes j such that even the j largest topics together hold
\* fewer than rich_content documents
C16_RichCount ==
  Cardinality({j \in 1..Len(topic_summary) :
     \A J \in SUBSET (1..Len(topic_summary)) :
        Cardinality(J) = j => C16_DocsOf(J) < rich_content})

\* C16: for every distribution, threshold and previous count p, the detector
\* counts n = the number of prefixes of the descending-sorted counts whose sum
\* is below rich_content, whatever the order of the topics; it reports stable
\* iff n = p, keeps the baseline when stable and sets it to n when not.
C16_DetectorCountsPrefixesBelowThreshold ==
  pc = "done" =>
     /\ result = ReturnedBool(C16_RichCount = entry.rich_topics)
     /\ rich_topics = IF C16_RichCount = entry.rich_topics
                      THEN entry.rich_topics
                      ELSE C16_RichCount

C16_Witness ==
  /\ pc = "done"
  /\ topic_summary = <<1, 3, 2>> /\ rich_content = 5
  /\ entry.rich_topics = 2
  /\ result = ReturnedBool(FALSE) /\ rich_topics = 1

\* the tokens held by the j leading documents, in descending order of size
C17_Leading(j) == Sum(SubSeq(SortDesc(matrix.tokens), 1, j))

\* C17: the majority_docs leading documents are the smallest leading set that
\* carries the target: together they hold at least floor(total_tokens * 0.8)
\* tokens, and no shorter leading set does.
C17_MajorityIsSmallestLeadingSet ==
  (pc = "done" /\ result.kind = "none") =>
     LET md == noise_pct.den - noise_pct.num
         target == (Sum(matrix.tokens) * 4) \div 5
     IN /\ C17_Leading(md) >= target
        /\ \A j \in 0..(md - 1) : C17_Leading(j) < target

\* C18: a call that returns after the detector reported stable at its loop
\* iteration number stableIter + 1 >= 2 has run one fit per loop iteration and
\* one more at the backed-off topic count; the object left in self.nmf is not
\* that refit but the one cached by the iteration before the stable one.
C18_RefitIsRunAndDiscarded ==
  (pc = "idle" /\ result.kind = "returned" /\ stableIter >= 1) =>
     /\ Len(fits) = stableIter + 2
     /\ \A j \in 1..(stableIter + 1) : fits[j] = start + (j - 1) * step.val
     /\ fits[Len(fits)] = StableTopicCount - step.val
     /\ origin.nmf = stableIter
     /\ origin.nmf # Len(fits)

C18_Witness ==
  /\ pc = "idle" /\ stableIter = 2
  /\ result = Returned(3)
  /\ fits = <<2, 3, 4, 3>>
  /\ origin.nmf = 2

\* C19: on a new estimator, a topic count that evaluate returns is one of
\* start, start + step, ..., start + (max_steps - 2) * step: not below start,
\* not the last count tried; with max_steps = 1 no topic count is returned.
C19_ReturnedCountInRange ==
  (pc = "idle" /\ calls = 1 /\ result.kind = "returned") =>
     /\ \E j \in 0..(max_steps - 2) : result.value = start + j * step.val
     /\ result.value >= start
     /\ result.value # start + (max_steps - 1) * step.val
     /\ max_steps # 1

C19_Witness ==
  /\ pc = "idle" /\ calls = 1
  /\ max_steps = 3 /\ start = 2 /\ step.val = 2
  /\ result = Returned(4)

\* the first iteration of the first call of a new estimator, its fit succeeding
C20_FirstIteration ==
  /\ pc = "loop" /\ calls = 1 /\ i = 0
  /\ Len(matrix.tokens) >= 1 /\ matrix.failAt # start

\* C20: on a new estimator the first loop iteration is reported stable if and
\* only if the largest topic of the first factorization holds at least
\* rich_content documents.
C20_FirstIterationStableIffLargestTopicIsRich ==
  [][C20_FirstIteration =>
        (stableIter' = 0 <=>
           \E j \in 1..Len(topic_summary') : topic_summary'[j] >= rich_content)]_vars

C20_Witness ==
  /\ pc = "idle" /\ calls = 1 /\ stableIter = 0
  /\ rich_content = 3 /\ topic_summary = <<3, 1>>
  /\ fits = <<2, 1>>
  /\ result = Raised("AttributeError")

\* the call in progress is about to fit, successfully, and check stability
C21_AboutToCheck ==
  /\ pc = "loop" /\ i < max_steps
  /\ Len(matrix.tokens) >= 1
  /\ matrix.failAt # start + i * step.val

\* C21: with 0 <= noise_pct <= 1 and one document or more, after every
\* stability check of a call rich_topics is at least 0 and less than the
\* number of non-empty topics of that iteration, which is at most the topic
\* count the iteration fitted.
C21_RichTopicsBelowTopics ==
  [][C21_AboutToCheck =>
        /\ rich_topics' >= 0
        /\ rich_topics' < Len(topic_summary')
        /\ Len(topic_summary') <= start + i * step.val
        /\ rich_topics' < start + i * step.val]_vars

C21_Witness ==
  /\ pc = "loop" /\ i = 2
  /\ topic_count = 4
  /\ topic_summary = <<1, 1, 1, 1>>
  /\ rich_content = 3
  /\ rich_topics = 2

\* the estimator ran on a matrix of one document or more that has a nonzero
\* entry
C22_Case ==
  /\ pc = "done"
  /\ Len(matrix.tokens) >= 1
  /\ Sum(matrix.tokens) >= 1

====
